---- MODULE Spec2Model ----
(***************************************************************************)
(* Model of the repo-search ingestion pipeline (src/repo-search/ingest.py) *)
(* and query layer (src/repo-search/query.py).                             *)
(*                                                                         *)
(* A file's bytes are abstracted to a content identifier; Doc(c) gives     *)
(* what the extractor, the text splitter and the string searches of        *)
(* chunk_text return for those bytes.  A chunk text is a record holding    *)
(* its origin, its length and the prefixes added to it.                    *)
(*                                                                         *)
(* Further specifications model single calls on bounded inputs:            *)
(* chunk_text and _get_heading_chain on a text given line by line          *)
(* (SpecChunk), the chunk parameters (SpecCfg), one invocation of query.py *)
(* (SpecCli), two overlapping ingest processes (SpecTwoRuns), and the      *)
(* markdown-only pipeline of src/vector-search/ingest.py next to this one  *)
(* (SpecEquiv).                                                            *)
(***************************************************************************)
EXTENDS Integers, Sequences, FiniteSets, TLC

VARIABLES
    disk,              \* files under repo_root: path -> content id (0 = no such file)
    db,                \* db_path: "none" (no directory) or "coll" (directory with the "brain" collection)
    store,             \* the collection: set of [id, document, metadata]
    cacheFile,         \* db_path/file_hashes.json: [st, map]
    bm25File,          \* db_path/bm25_index.pkl: [st, ids]
    clock,             \* datetime.now() of the run (one tick per run)
    pc,                \* position of the ingest process
    force,             \* ingest(force=...)
    dry_run,           \* ingest(dry_run=...)
    hash_cache,        \* ingest: the in-memory hash_cache dict
    files_to_process,  \* ingest: list of <<path, file_hash>>
    files_unchanged,   \* ingest: counter
    i,                 \* ingest: 1-based index into files_to_process
    chunks,            \* ingest: enriched chunks of the file in flight
    skipped,           \* ingest: extraction failures
    total_chunks,      \* ingest: chunks added by the run
    edits,             \* number of edits made to the source tree so far
    run0,              \* observation: store and cache file when the run started
    since,             \* observation: what happened since the last completed run
    hyb,               \* inputs and result of one hybrid_search call
    prune,             \* the last prune: its return value and the store it saw
    rr,                \* inputs and result of one rerank_results call
    md,                \* inputs and result of one chunk_text call on a markdown text
    cli,               \* one invocation of query.py: database, command, output
    cfg,               \* chunk parameters of one ingestion or chunk_text call
    procs,             \* two ingest processes on one root and index directory
    vs                 \* the markdown-only pipeline: its store and hash cache

diskVars == <<disk, edits>>
persVars == <<db, store, cacheFile, bm25File>>
runVars  == <<pc, force, dry_run, hash_cache, files_to_process, files_unchanged,
              i, chunks, skipped, total_chunks>>
obsVars  == <<run0, since>>
queryVars == <<hyb, prune, rr>>
auxVars == <<md, cli, cfg, procs, vs>>
vars == <<disk, edits, db, store, cacheFile, bm25File, clock, pc, force, dry_run,
          hash_cache, files_to_process, files_unchanged, i, chunks, skipped,
          total_chunks, run0, since, hyb, prune, rr, md, cli, cfg, procs, vs>>

----------------------------------------------------------------------------
(* Bounds of the model *)

MaxRuns == 2
MaxEdits == 1
MaxTopK == 2
MaxQueryWords == 2
MaxLines == 4
MaxFileChunks == 3

(* Program constants *)

MIN_CHUNK_LEN == 50
PREFIX_EXTRA == 4
RRF_K == 60
BOOST_TITLE == 5
BOOST_AREA == 2
SEARCH_KEY_LEN == 80
DEFAULT_CHUNK_SIZE == 1000
DEFAULT_CHUNK_OVERLAP == 200

----------------------------------------------------------------------------
(* The corpus: paths under repo_root, in sorted order, and the contents a  *)
(* file can have.                                                          *)

PathSeq == <<"fin/q4.md", "fin/sub/inv.pdf">>
Paths == {PathSeq[n] : n \in 1..Len(PathSeq)}

(* a corpus of markdown files only, and every path of the model in the    *)
(* order sorted() gives                                                    *)
MdPathSeq == <<"fin/notes.md", "fin/q4.md">>
MdPaths == {MdPathSeq[n] : n \in 1..Len(MdPathSeq)}
CorpusSeq == <<"fin/notes.md", "fin/q4.md", "fin/sub/inv.pdf">>

PathExt(p) == IF p = "fin/sub/inv.pdf" THEN "pdf" ELSE "md"
PathStem(p) ==
    IF p = "fin/q4.md" THEN "q4" ELSE IF p = "fin/notes.md" THEN "notes" ELSE "inv"
PathStemLen(p) ==
    IF p = "fin/q4.md" THEN 2 ELSE IF p = "fin/notes.md" THEN 5 ELSE 3
PathArea(p) == "fin"
PathSubArea(p) == IF p = "fin/sub/inv.pdf" THEN "sub" ELSE ""

Contents == 1..4

(* Doc(c): what the libraries return on the bytes c.                        *)
(*   ok       extract_text returns (FALSE: it raises)                       *)
(*   h1Len    length of the first "# " heading of the text (0: none)        *)
(*   raws     the splitter's chunks, each with                              *)
(*     len       its length (the splitter strips whitespace)                *)
(*     pos       sign of content.find(chunk[:80].strip()): -1, 0 or 1       *)
(*     chainLen  length of the heading chain at that position (0: empty)    *)
(*     h1        chunk.strip().startswith("# ")                             *)
(*     title     the title occurs in the chunk's first len(title)+50 chars  *)
(*     chainTitle the same, of the chunk with its heading chain prepended   *)
Raw(len, pos, chainLen, h1, title, chainTitle) ==
    [len |-> len, pos |-> pos, chainLen |-> chainLen, h1 |-> h1,
     title |-> title, chainTitle |-> chainTitle]

Doc(c) ==
    CASE c = 1 -> [ok |-> FALSE, h1Len |-> 0, raws |-> <<>>]
      [] c = 2 -> [ok |-> TRUE, h1Len |-> 0,
                   raws |-> <<Raw(40, 0, 0, FALSE, FALSE, FALSE)>>]
      [] c = 3 -> [ok |-> TRUE, h1Len |-> 9,
                   raws |-> <<Raw(60, 0, 0, TRUE, TRUE, FALSE),
                              Raw(30, 1, 25, FALSE, FALSE, TRUE),
                              Raw(49, -1, 0, FALSE, FALSE, FALSE),
                              Raw(50, 1, 12, FALSE, FALSE, FALSE)>>]
      [] OTHER -> [ok |-> TRUE, h1Len |-> 0,
                   raws |-> <<Raw(80, 0, 0, FALSE, FALSE, FALSE)>>]

----------------------------------------------------------------------------
(* Pure functions of ingest.py *)

compute_file_hash(c) == 1000 + 7 * c

ContentOfHash(h) == CHOOSE c \in Contents : compute_file_hash(c) = h

find_files(d) == SelectSeq(CorpusSeq, LAMBDA p : p \in DOMAIN d /\ d[p] # 0)

extract_ok(c) == Doc(c).ok

(* extract_metadata: the fields that depend on the path and the content *)
TitleLen(p, c) ==
    IF PathExt(p) = "md" /\ Doc(c).h1Len > 0 THEN Doc(c).h1Len ELSE PathStemLen(p)

extract_metadata(p, c) ==
    [file_path |-> p, file_type |-> PathExt(p), area |-> PathArea(p),
     sub_area |-> PathSubArea(p),
     title |-> IF PathExt(p) = "md" /\ Doc(c).h1Len > 0
               THEN [from |-> "h1", c |-> c, stem |-> ""]
               ELSE [from |-> "stem", c |-> 0, stem |-> PathStem(p)]]

(* A chunk text: origin (content, raw index), length, prefixes added *)
Text(c, k, len, pre) == [c |-> c, k |-> k, len |-> len, pre |-> pre]

Prefixed(t, tag, n) == Text(t.c, t.k, n + PREFIX_EXTRA + t.len, <<tag>> \o t.pre)

StripLen(t) == t.len

HeadingEnrich(p, c, k) ==
    LET r == Doc(c).raws[k]
        t == Text(c, k, r.len, <<>>)
    IN  IF PathExt(p) = "md" /\ r.pos > 0 /\ r.chainLen > 0 /\ ~r.h1
        THEN Prefixed(t, "chain", r.chainLen)
        ELSE t

(* Mutant: the minimum-length filter is left out *)
KeepEveryChunk(t) == TRUE

KeepChunk(t) == StripLen(t) >= MIN_CHUNK_LEN

chunk_text(p, c) ==
    LET n == Len(Doc(c).raws)
        enriched == [k \in 1..n |-> HeadingEnrich(p, c, k)]
    IN  SelectSeq(enriched, KeepChunk)

TitleInWindow(p, c, t) ==
    LET r == Doc(c).raws[t.k]
    IN  IF t.pre = <<>> THEN r.title ELSE r.chainTitle

(* Mutant: only the first raw chunk of a document gets the title *)
TitleEnrichFirstOnly(p, c, t) ==
    IF TitleLen(p, c) > 0 /\ ~TitleInWindow(p, c, t) /\ t.k = 1
    THEN Prefixed(t, "title", TitleLen(p, c))
    ELSE t

TitleEnrich(p, c, t) ==
    IF TitleLen(p, c) > 0 /\ ~TitleInWindow(p, c, t)
    THEN Prefixed(t, "title", TitleLen(p, c))
    ELSE t

EnrichedChunks(p, c) ==
    LET cs == chunk_text(p, c)
    IN  [k \in 1..Len(cs) |-> TitleEnrich(p, c, cs[k])]

(* Mutant: the id carries the time of the run *)
ChunkIdPerRun(p, j) == <<p, j + 100 * clock>>

(* line 385: f"{rel_path}::chunk_{j}" *)
ChunkId(p, j) == <<p, j>>

(* Mutant: chunks are numbered by their position before the length filter *)
ChunkRecordRawIndex(p, c, cs, j, now) ==
    [id |-> ChunkId(p, cs[j].k - 1),
     document |-> cs[j],
     metadata |-> [m \in DOMAIN extract_metadata(p, c) \cup
                        {"chunk_index", "chunk_count", "chunk_length", "ingested_at"} |->
                   CASE m = "chunk_index" -> cs[j].k - 1
                     [] m = "chunk_count" -> Len(cs)
                     [] m = "chunk_length" -> cs[j].len
                     [] m = "ingested_at" -> now
                     [] OTHER -> extract_metadata(p, c)[m]]]

ChunkRecord(p, c, cs, j, now) ==
    [id |-> ChunkId(p, j - 1),
     document |-> cs[j],
     metadata |-> [m \in DOMAIN extract_metadata(p, c) \cup
                        {"chunk_index", "chunk_count", "chunk_length", "ingested_at"} |->
                   CASE m = "chunk_index" -> j - 1
                     [] m = "chunk_count" -> Len(cs)
                     [] m = "chunk_length" -> cs[j].len
                     [] m = "ingested_at" -> now
                     [] OTHER -> extract_metadata(p, c)[m]]]

NewRecords(p, c, cs, now) == {ChunkRecord(p, c, cs, j, now) : j \in 1..Len(cs)}

----------------------------------------------------------------------------
(* The persisted hash cache and the in-memory dict *)

EmptyMap == [x \in {} |-> 0]

Put(m, p, h) == [q \in DOMAIN m \cup {p} |-> IF q = p THEN h ELSE m[q]]

Get(m, p) == IF p \in DOMAIN m THEN m[p] ELSE 0

NoFile == [st |-> "missing", map |-> EmptyMap]

(* load_hash_cache: {} when the file does not exist, json.loads otherwise *)
load_hash_cache(f) == IF f.st = "missing" THEN EmptyMap ELSE f.map

LoadRaises(f) == f.st = "corrupt"

(* Mutant: with force the persisted cache is still loaded *)
InitialCacheIgnoresForce(f, file) == load_hash_cache(file)

(* line 279: hash_cache = {} if force else load_hash_cache(cache_path) *)
InitialCache(f, file) == IF f THEN EmptyMap ELSE load_hash_cache(file)

(* Mutant: a cached path counts as unchanged whatever its hash *)
IsUnchangedPathOnly(f, cache, d, p) == ~f /\ p \in DOMAIN cache

(* the DIFF loop of ingest *)
IsUnchanged(f, cache, d, p) == ~f /\ Get(cache, p) = compute_file_hash(d[p])

ToProcess(f, cache, d) ==
    LET todo == SelectSeq(find_files(d), LAMBDA p : ~IsUnchanged(f, cache, d, p))
    IN  [n \in 1..Len(todo) |-> <<todo[n], compute_file_hash(d[todo[n]])>>]

CountUnchanged(f, cache, d) ==
    Len(SelectSeq(find_files(d), LAMBDA p : IsUnchanged(f, cache, d, p)))

(* Mutant: the database is opened before the dry-run return *)
CreatesDbBeforeDryRun(d, todo) == todo # <<>>

(* lines 300-330: a dry run and a run with nothing to update return before *)
(* db_path is created and the collection opened                            *)
CreatesDb(d, todo) == ~d /\ todo # <<>>

RECURSIVE DryTotal(_, _)
DryTotal(todo, d) ==
    IF todo = <<>> THEN 0
    ELSE LET p == Head(todo)[1]
         IN  (IF extract_ok(d[p]) THEN Len(chunk_text(p, d[p])) ELSE 0)
             + DryTotal(Tail(todo), d)

----------------------------------------------------------------------------
(* The embedding store (the "brain" collection) *)

StoreFor(s, p) == {r \in s : r.metadata.file_path = p}

StoreIds(s) == {r.id : r \in s}

(* Mutant: the delete is not restricted to the file's path *)
DeleteEverything(s, p) == {}

(* collection.get(where={"file_path": p}) then collection.delete(ids=...) *)
DeleteWhere(s, p) == {r \in s : r.id \notin StoreIds(StoreFor(s, p))}

(* collection.add: a record whose id is already stored is ignored *)
CollectionAdd(s, recs) == s \cup {r \in recs : r.id \notin StoreIds(s)}

----------------------------------------------------------------------------
(* query.py: keyword search and hybrid search.  A call is modelled on its  *)
(* inputs: the collection's chunks in order of increasing distance to the  *)
(* query, the BM25 blob (parallel arrays, and the score get_scores gives   *)
(* each entry for the query), top_k and the area filter.                   *)

HChunks == {"A", "B", "C", "D"}
HArea(id) == IF id = "D" THEN "ops" ELSE "fin"
HIds == <<"A", "B", "C", "D">>
HScores == -1..2
HAreas == {"", "fin"}
TopKs == 1..MaxTopK

HybOff == [st |-> "off", near |-> <<>>, bm25 |-> [st |-> "missing", scores |-> <<>>],
           top_k |-> 0, area |-> "", kw |-> <<>>, vec |-> <<>>,
           rrf_scores |-> EmptyMap, results |-> <<>>, kwres |-> <<>>]

Min(a, b) == IF a < b THEN a ELSE b

Range(seq) == {seq[n] : n \in 1..Len(seq)}

Perms(S) == {q \in [1..Cardinality(S) -> S] : Range(q) = S}

(* Mutant: the slice is left out *)
TakeAll(seq, n) == seq

(* seq[:n] *)
Take(seq, n) == SubSeq(seq, 1, Min(n, Len(seq)))

(* position of the first element of seq whose key is the greatest *)
FirstMax(seq, key) ==
    CHOOSE n \in 1..Len(seq) :
        /\ \A m \in 1..Len(seq) : key[seq[m]] <= key[seq[n]]
        /\ \A m \in 1..(n - 1) : key[seq[m]] < key[seq[n]]

Remove(seq, n) == SubSeq(seq, 1, n - 1) \o SubSeq(seq, n + 1, Len(seq))

(* sorted(seq, key=key.get, reverse=True): stable, equal keys keep their  *)
(* order                                                                   *)
RECURSIVE SortedDesc(_, _)
SortedDesc(seq, key) ==
    IF seq = <<>> THEN <<>>
    ELSE LET n == FirstMax(seq, key)
         IN  <<seq[n]>> \o SortedDesc(Remove(seq, n), key)

(* keyword_search, lines 312-329 *)
keyword_search(bm25, top_k) ==
    IF bm25.st = "missing" THEN <<>>
    ELSE LET scores == bm25.scores
             indices == [n \in 1..Len(scores) |-> n]
             top_indices == Take(SortedDesc(indices, scores), top_k)
             hits == SelectSeq(top_indices, LAMBDA idx : scores[idx] > 0)
         IN  [n \in 1..Len(hits) |->
                 [id |-> HIds[hits[n]], score |-> scores[hits[n]],
                  metadata |-> [area |-> HArea(HIds[hits[n]])]]]

(* Mutant: the where filter is not passed on *)
VectorQueryUnfiltered(near, n, area) == Take(near, n)

(* collection.query(n_results=n, where=filter): the n nearest chunks that  *)
(* satisfy the filter                                                      *)
VectorQuery(near, n, area) ==
    Take(SelectSeq(near, LAMBDA id : area = "" \/ HArea(id) = area), n)

(* 1/(k + rank) as an exact multiple of 1/RrfScale *)
RrfScale == (RRF_K + 1) * (RRF_K + 2) * (RRF_K + 3) * (RRF_K + 4)

(* Mutant: ranks counted from 0 *)
RrfTermFromZero(rank) == RrfScale \div (RRF_K + rank - 1)

RrfTerm(rank) == RrfScale \div (RRF_K + rank)

(* lines 359-366: the two accumulation loops *)
RECURSIVE Accumulate(_, _, _)
Accumulate(scores, ids, rank) ==
    IF ids = <<>> THEN scores
    ELSE Accumulate(Put(scores, Head(ids), Get(scores, Head(ids)) + RrfTerm(rank)),
                    Tail(ids), rank + 1)

(* dict keys in insertion order: vector ids, then the new keyword ids *)
KeyOrder(vec, kwIds) == vec \o SelectSeq(kwIds, LAMBDA id : id \notin Range(vec))

(* hybrid_search, lines 332-392 *)
hybrid_search(near, bm25, top_k, area) ==
    LET vec == VectorQuery(near, Min(top_k * 2, Len(near)), area)
        kw == keyword_search(bm25, top_k * 2)
        kwIds == [n \in 1..Len(kw) |-> kw[n].id]
        rrf == Accumulate(Accumulate(EmptyMap, vec, 1), kwIds, 1)
        sorted_ids == Take(SortedDesc(KeyOrder(vec, kwIds), rrf), top_k)
    IN  [vec |-> vec, kw |-> kwIds, rrf_scores |-> rrf,
         results |-> [n \in 1..Len(sorted_ids) |->
                        [id |-> sorted_ids[n], score |-> rrf[sorted_ids[n]],
                         metadata |-> [area |-> HArea(sorted_ids[n])]]]]

----------------------------------------------------------------------------
(* query.py: rerank_results.  A call is modelled on a list of results over *)
(* the chunks of two files, a query given as its whitespace-separated      *)
(* words, and the deduplicate flag.  Scores and boosts are in hundredths;  *)
(* a string that is split is the sequence of its words.                    *)

RChunks == {"a0", "a1", "b0"}
RFile(id) == IF id = "b0" THEN "b.md" ELSE "a.md"
RTitle(fp) == IF fp = "a.md" THEN <<"Budget", "Report">> ELSE <<"notes">>
RArea(fp) == IF fp = "a.md" THEN "Finance" ELSE "health"
RScores == {50, 53, 57}
QWords == {"budget", "Report", "finance", "health"}
Queries == UNION {[1..n -> QWords] : n \in 0..MaxQueryWords}

RrOff == [st |-> "off", results |-> <<>>, query |-> <<>>, deduplicate |-> FALSE,
          out |-> <<>>, after |-> <<>>]

Result(id, score) ==
    [id |-> id, score |-> score,
     metadata |-> [file_path |-> RFile(id), title |-> RTitle(RFile(id)),
                   area |-> RArea(RFile(id))]]

(* str.lower() of one word *)
Lower(w) ==
    CASE w = "Budget" -> "budget"
      [] w = "Report" -> "report"
      [] w = "Finance" -> "finance"
      [] OTHER -> w

(* set(text.lower().split()) *)
LowerSplit(text) == {Lower(text[n]) : n \in 1..Len(text)}

(* Mutant: a title match counts once, however many terms match *)
BoostTitleOnce(r, query_terms) ==
    (IF query_terms \cap LowerSplit(r.metadata.title) # {} THEN BOOST_TITLE ELSE 0)
    + (IF Lower(r.metadata.area) \in query_terms THEN BOOST_AREA ELSE 0)

(* lines 403-411: the boost of one result *)
Boost(r, query_terms) ==
    Cardinality(query_terms \cap LowerSplit(r.metadata.title)) * BOOST_TITLE
    + (IF Lower(r.metadata.area) \in query_terms THEN BOOST_AREA ELSE 0)

(* lines 417-424: the first result of each file_path is kept *)
RECURSIVE DedupLoop(_, _, _)
DedupLoop(seq, seen_files, deduped) ==
    IF seq = <<>> THEN deduped
    ELSE LET r == Head(seq)
             fp == r.metadata.file_path
         IN  IF fp \notin seen_files
             THEN DedupLoop(Tail(seq), seen_files \cup {fp}, Append(deduped, r))
             ELSE DedupLoop(Tail(seq), seen_files, deduped)

(* Mutant: the results seen are told apart by chunk id, which never repeats *)
DeduplicateById(boosted) == boosted

Deduplicate(boosted) == DedupLoop(boosted, {}, <<>>)

(* rerank_results, lines 395-426: the list returned, and the input list as *)
(* the call leaves it                                                      *)
rerank_results(results, query, deduplicate) ==
    IF results = <<>> THEN [out |-> results, after |-> results]
    ELSE LET query_terms == LowerSplit(query)
             boosted == [n \in 1..Len(results) |->
                            [results[n] EXCEPT
                                !.score = @ + Boost(results[n], query_terms)]]
             sorted == SortedDesc(boosted, [x \in Range(boosted) |-> x.score])
         IN  [out |-> IF deduplicate THEN Deduplicate(sorted) ELSE sorted,
              after |-> results]

----------------------------------------------------------------------------
(* Positions of the ingest process *)

Running == {"extract", "delete", "add", "cache", "save", "write"}
Completed == {"done", "ret_nofiles", "ret_current"}
Stopped == {"idle", "done", "ret_nofiles", "ret_current", "ret_dry",
            "killed", "aborted", "crashed", "pruned"}

CurPath == files_to_process[i][1]
CurHash == files_to_process[i][2]

NoSince == [base |-> "none", edited |-> {}, forced |-> FALSE,
            kill |-> FALSE, kstore |-> {}, kcache |-> NoFile, kforce |-> FALSE,
            kpath |-> ""]

NoPrune == [removed |-> 0, before |-> {}]

(* a variable of a specification that is not the one running *)
Off == [st |-> "off"]

AuxOff ==
    /\ md = Off
    /\ cli = Off
    /\ cfg = Off
    /\ procs = Off
    /\ vs = Off

NoRun0 == [store |-> {}, cache |-> NoFile, since |-> NoSince]

IngestInit ==
    /\ edits = 0
    /\ db = "none"
    /\ store = {}
    /\ cacheFile = NoFile
    /\ bm25File = [st |-> "missing", ids |-> {}]
    /\ clock = 0
    /\ pc = "idle"
    /\ force = FALSE
    /\ dry_run = FALSE
    /\ hash_cache = EmptyMap
    /\ files_to_process = <<>>
    /\ files_unchanged = 0
    /\ i = 1
    /\ chunks = <<>>
    /\ skipped = 0
    /\ total_chunks = 0
    /\ run0 = NoRun0
    /\ since = NoSince

Init ==
    /\ disk \in [Paths -> {0} \cup Contents]
    /\ IngestInit
    /\ hyb = HybOff
    /\ prune = NoPrune
    /\ rr = RrOff
    /\ AuxOff

(* the process ended by an exception or a signal: its memory is gone *)
ProcessGone ==
    /\ hash_cache' = EmptyMap
    /\ files_to_process' = <<>>
    /\ files_unchanged' = 0
    /\ i' = 1
    /\ chunks' = <<>>
    /\ skipped' = 0
    /\ total_chunks' = 0

(* no process is left to look at *)
NoProcess ==
    /\ pc' = "idle"
    /\ force' = FALSE
    /\ dry_run' = FALSE
    /\ run0' = NoRun0
    /\ ProcessGone

NoKill(s) == [s EXCEPT !.kill = FALSE, !.kstore = {}, !.kcache = NoFile,
                       !.kforce = FALSE, !.kpath = ""]

(* The user edits, creates (from 0) or deletes (to 0) a file between runs *)
Edit(p, c) ==
    /\ pc \in Stopped
    /\ edits < MaxEdits
    /\ disk[p] # c
    /\ disk' = [disk EXCEPT ![p] = c]
    /\ edits' = edits + 1
    /\ since' = [NoKill(since) EXCEPT !.edited = @ \cup {p}]
    /\ NoProcess
    /\ prune' = NoPrune
    /\ UNCHANGED <<persVars, clock, hyb, rr, auxVars>>

(* Observation of a run's end: what later runs are compared against *)
SinceCompleted(f) == [NoSince EXCEPT !.base = "complete", !.forced = f]

SinceBroken == [NoKill(since) EXCEPT !.base = "none", !.forced = FALSE]

(* ingest(), lines 262-335: discovery, cache load, DIFF, dry run, early      *)
(* returns, and the creation of the database                                 *)
StartRun(f, d) ==
    /\ pc \in Stopped
    /\ clock < MaxRuns
    /\ clock' = clock + 1
    /\ force' = f
    /\ dry_run' = d
    /\ run0' = [store |-> store, cache |-> cacheFile, since |-> since]
    /\ i' = 1
    /\ chunks' = <<>>
    /\ skipped' = 0
    /\ UNCHANGED <<diskVars, store, cacheFile, bm25File, queryVars, auxVars>>
    /\ IF find_files(disk) = <<>>
       THEN /\ pc' = "ret_nofiles"
            /\ since' = IF d THEN since ELSE SinceCompleted(f)
            /\ hash_cache' = EmptyMap
            /\ files_to_process' = <<>>
            /\ files_unchanged' = 0
            /\ total_chunks' = 0
            /\ UNCHANGED db
       ELSE IF ~f /\ LoadRaises(cacheFile)
       THEN /\ pc' = "crashed"
            /\ since' = SinceBroken
            /\ hash_cache' = EmptyMap
            /\ files_to_process' = <<>>
            /\ files_unchanged' = 0
            /\ total_chunks' = 0
            /\ UNCHANGED db
       ELSE LET cache == InitialCache(f, cacheFile)
                todo == ToProcess(f, cache, disk)
            IN  /\ hash_cache' = cache
                /\ files_to_process' = todo
                /\ files_unchanged' = CountUnchanged(f, cache, disk)
                /\ db' = IF CreatesDb(d, todo) THEN "coll" ELSE db
                /\ IF d
                   THEN /\ pc' = "ret_dry"
                        /\ total_chunks' = DryTotal(todo, disk)
                        /\ UNCHANGED since
                   ELSE IF todo = <<>>
                   THEN /\ pc' = "ret_current"
                        /\ total_chunks' = 0
                        /\ since' = SinceCompleted(f)
                   ELSE /\ pc' = "extract"
                        /\ total_chunks' = 0
                        /\ UNCHANGED since

(* Mutant: the extraction error is not caught and ends the run *)
ExtractFailAborts ==
    /\ pc = "extract"
    /\ i <= Len(files_to_process)
    /\ ~extract_ok(disk[CurPath])
    /\ pc' = "aborted"
    /\ since' = SinceBroken
    /\ ProcessGone
    /\ UNCHANGED <<diskVars, persVars, clock, force, dry_run, run0, queryVars, auxVars>>

(* lines 337-347: extract_text raises, the file is skipped *)
ExtractFail ==
    /\ pc = "extract"
    /\ i <= Len(files_to_process)
    /\ ~extract_ok(disk[CurPath])
    /\ skipped' = skipped + 1
    /\ i' = i + 1
    /\ UNCHANGED <<diskVars, persVars, clock, pc, force, dry_run, hash_cache,
                   files_to_process, files_unchanged, chunks, total_chunks,
                   obsVars, queryVars, auxVars>>

(* lines 349-367: no chunk is left, the file is passed over *)
ExtractEmpty ==
    /\ pc = "extract"
    /\ i <= Len(files_to_process)
    /\ extract_ok(disk[CurPath])
    /\ EnrichedChunks(CurPath, disk[CurPath]) = <<>>
    /\ i' = i + 1
    /\ UNCHANGED <<diskVars, persVars, clock, pc, force, dry_run, hash_cache,
                   files_to_process, files_unchanged, chunks, skipped,
                   total_chunks, obsVars, queryVars, auxVars>>

(* lines 349-362: metadata, chunking, title prefix *)
ExtractOk ==
    /\ pc = "extract"
    /\ i <= Len(files_to_process)
    /\ extract_ok(disk[CurPath])
    /\ EnrichedChunks(CurPath, disk[CurPath]) # <<>>
    /\ chunks' = EnrichedChunks(CurPath, disk[CurPath])
    /\ pc' = "delete"
    /\ UNCHANGED <<diskVars, persVars, clock, force, dry_run, hash_cache,
                   files_to_process, files_unchanged, i, skipped, total_chunks,
                   obsVars, queryVars, auxVars>>

(* lines 369-377: the file's old chunks are deleted *)
DeleteOld ==
    /\ pc = "delete"
    /\ store' = DeleteWhere(store, CurPath)
    /\ pc' = "add"
    /\ UNCHANGED <<diskVars, db, cacheFile, bm25File, clock, force, dry_run,
                   hash_cache, files_to_process, files_unchanged, i, chunks,
                   skipped, total_chunks, obsVars, queryVars, auxVars>>

(* lines 379-403: the new chunks are added *)
AddChunks ==
    /\ pc = "add"
    /\ store' = CollectionAdd(store, NewRecords(CurPath, disk[CurPath], chunks, clock))
    /\ total_chunks' = total_chunks + Len(chunks)
    /\ pc' = "cache"
    /\ UNCHANGED <<diskVars, db, cacheFile, bm25File, clock, force, dry_run,
                   hash_cache, files_to_process, files_unchanged, i, chunks,
                   skipped, obsVars, queryVars, auxVars>>

(* Mutant: the storage error is swallowed (as the one around the delete   *)
(* is) and the loop goes on to record the file's hash                     *)
AddFailsSwallowed ==
    /\ pc = "add"
    /\ pc' = "cache"
    /\ UNCHANGED <<diskVars, persVars, clock, force, dry_run, hash_cache,
                   files_to_process, files_unchanged, i, chunks, skipped,
                   total_chunks, obsVars, queryVars, auxVars>>

(* collection.add raises (storage error): the exception ends the run *)
AddFails ==
    /\ pc = "add"
    /\ pc' = "aborted"
    /\ since' = SinceBroken
    /\ ProcessGone
    /\ UNCHANGED <<diskVars, persVars, clock, force, dry_run, run0, queryVars, auxVars>>

(* Mutant: the hash of the processed file is not recorded *)
HashNotRecorded(cache, p, h) == cache

(* line 405: hash_cache[rel_path] = file_hash, and the loop goes on *)
HashAfterAdd(cache, p, h) == Put(cache, p, h)

CacheUpdate ==
    /\ pc = "cache"
    /\ hash_cache' = HashAfterAdd(hash_cache, CurPath, CurHash)
    /\ i' = i + 1
    /\ chunks' = <<>>
    /\ pc' = "extract"
    /\ UNCHANGED <<diskVars, persVars, clock, force, dry_run, files_to_process,
                   files_unchanged, skipped, total_chunks, obsVars, queryVars, auxVars>>

(* the loop is over *)
LoopEnd ==
    /\ pc = "extract"
    /\ i > Len(files_to_process)
    /\ pc' = "save"
    /\ UNCHANGED <<diskVars, persVars, clock, force, dry_run, hash_cache,
                   files_to_process, files_unchanged, i, chunks, skipped,
                   total_chunks, obsVars, queryVars, auxVars>>

(* save_hash_cache: write_text opens the file for writing, which empties it *)
SaveOpen ==
    /\ pc = "save"
    /\ cacheFile' = [st |-> "corrupt", map |-> EmptyMap]
    /\ pc' = "write"
    /\ UNCHANGED <<diskVars, db, store, bm25File, clock, force, dry_run,
                   hash_cache, files_to_process, files_unchanged, i, chunks,
                   skipped, total_chunks, obsVars, queryVars, auxVars>>

(* ... and then writes the json of the dict; the summary follows (412-423) *)
SaveWrite ==
    /\ pc = "write"
    /\ cacheFile' = [st |-> "ok", map |-> hash_cache]
    /\ pc' = "done"
    /\ since' = SinceCompleted(force)
    /\ UNCHANGED <<diskVars, db, store, bm25File, clock, force, dry_run,
                   hash_cache, files_to_process, files_unchanged, i, chunks,
                   skipped, total_chunks, run0, queryVars, auxVars>>

(* the process is terminated from outside *)
Kill ==
    /\ pc \in Running
    /\ pc' = "killed"
    /\ since' = [since EXCEPT !.base = "none", !.forced = FALSE, !.kill = TRUE,
                               !.kstore = run0.store, !.kcache = run0.cache,
                               !.kforce = force,
                               !.kpath = IF i <= Len(files_to_process)
                                         THEN CurPath ELSE ""]
    /\ ProcessGone
    /\ UNCHANGED <<diskVars, persVars, clock, force, dry_run, run0, queryVars, auxVars>>

Next ==
    \/ \E p \in Paths, c \in {0} \cup Contents : Edit(p, c)
    \/ \E f \in BOOLEAN, d \in BOOLEAN : StartRun(f, d)
    \/ ExtractFail
    \/ ExtractEmpty
    \/ ExtractOk
    \/ DeleteOld
    \/ AddChunks
    \/ AddFails
    \/ CacheUpdate
    \/ LoopEnd
    \/ SaveOpen
    \/ SaveWrite
    \/ Kill

Spec == Init /\ [][Next]_vars

----------------------------------------------------------------------------
(* Pruning (cmd_prune(collection, repo_root)): the indexed file paths are  *)
(* compared against the files under the root, the chunks of the files that *)
(* no longer exist are deleted, and their number is returned.              *)

IndexedPaths(s) == {r.metadata.file_path : r \in s}

(* Mutant: a path counts as orphaned when the file is still there *)
OrphanedWrongTest(s, d) == {p \in IndexedPaths(s) : d[p] # 0}

Orphaned(s, d) == {p \in IndexedPaths(s) : d[p] = 0}

CmdPrune ==
    /\ pc \in Stopped
    /\ db = "coll"
    /\ store' = {r \in store : r.metadata.file_path \notin Orphaned(store, disk)}
    /\ prune' = [removed |-> Cardinality({r \in store :
                                 r.metadata.file_path \in Orphaned(store, disk)}),
                 before |-> store]
    /\ pc' = "pruned"
    /\ since' = SinceBroken
    /\ force' = FALSE
    /\ dry_run' = FALSE
    /\ run0' = NoRun0
    /\ ProcessGone
    /\ UNCHANGED <<diskVars, db, cacheFile, bm25File, clock, hyb, rr, auxVars>>

NextPrune ==
    \/ Next
    \/ CmdPrune

SpecPrune == Init /\ [][NextPrune]_vars

----------------------------------------------------------------------------
(* chunk_text and _get_heading_chain on a markdown text given line by line. *)
(* A line is a heading "#"*lv + " " + tx (lv in 1..3) or a body line       *)
(* (lv = 0).  A body line is at least SEARCH_KEY_LEN characters long and a *)
(* heading line is shorter, so the search key chunk[:80].strip() of a      *)
(* chunk is its first line when that is a body line, and its heading line  *)
(* with the start of the next line otherwise.  Positions count whole       *)
(* lines.                                                                  *)

Line(lv, tx) == [lv |-> lv, tx |-> tx]

HeadingLines == {Line(l, n) : l \in 1..3, n \in {"A", "B"}} \cup {Line(0, "x")}

MdLines == {Line(1, "T"), Line(2, "A"), Line(2, "B"), Line(3, "S"),
            Line(0, "x"), Line(0, "y")}

SeqsUpTo(S, n) == UNION {[1..k -> S] : k \in 0..n}

(* the dict headings of _get_heading_chain: level -> text, "" for no key *)
NoHeadings == [l \in 1..3 |-> ""]

(* Mutant: a "## " heading does not pop the level-3 entry *)
HeadingStepKeepsDeeper(headings, line) ==
    IF line.lv = 3 THEN [headings EXCEPT ![3] = line.tx]
    ELSE IF line.lv = 2 THEN [headings EXCEPT ![2] = line.tx]
    ELSE IF line.lv = 1 THEN [headings EXCEPT ![1] = line.tx, ![2] = "", ![3] = ""]
    ELSE headings

(* one iteration of the loop over the lines *)
HeadingStep(headings, line) ==
    IF line.lv = 3 THEN [headings EXCEPT ![3] = line.tx]
    ELSE IF line.lv = 2 THEN [headings EXCEPT ![2] = line.tx, ![3] = ""]
    ELSE IF line.lv = 1 THEN [headings EXCEPT ![1] = line.tx, ![2] = "", ![3] = ""]
    ELSE headings

RECURSIVE HeadingLoop(_, _)
HeadingLoop(lines, headings) ==
    IF lines = <<>> THEN headings
    ELSE HeadingLoop(Tail(lines), HeadingStep(headings, Head(lines)))

(* the parts that are joined by " > ", in the order of sorted(headings) *)
get_heading_chain(content, position) ==
    LET headings == HeadingLoop(SubSeq(content, 1, position), NoHeadings)
    IN  SelectSeq(<<headings[1], headings[2], headings[3]>>, LAMBDA t : t # "")

(* the splitter: consecutive spans of the text, cut after the lines in cuts *)
SortedSeq(S) ==
    CHOOSE q \in [1..Cardinality(S) -> S] :
        \A a, b \in 1..Cardinality(S) : a < b => q[a] < q[b]

split_text(content, cuts) ==
    IF content = <<>> THEN <<>>
    ELSE LET ends == SortedSeq(cuts \cup {Len(content)})
         IN  [k \in 1..Len(ends) |->
                 SubSeq(content, IF k = 1 THEN 1 ELSE ends[k - 1] + 1, ends[k])]

SearchKey(chunk) ==
    IF chunk[1].lv = 0 THEN <<chunk[1]>> ELSE SubSeq(chunk, 1, Min(2, Len(chunk)))

(* content.find(search_key): the first place the key occurs, -1 if none *)
Find(content, key) ==
    LET at == {n \in 0..(Len(content) - Len(key)) :
                  SubSeq(content, n + 1, n + Len(key)) = key}
    IN  IF at = {} THEN -1 ELSE CHOOSE n \in at : \A m \in at : n <= m

(* the chain chunk_text prepends to a raw chunk (<<>>: none) *)
ChainPrefix(content, chunk) ==
    LET pos == Find(content, SearchKey(chunk))
        heading_chain == IF pos > 0 THEN get_heading_chain(content, pos) ELSE <<>>
    IN  IF heading_chain # <<>> /\ chunk[1].lv # 1 THEN heading_chain ELSE <<>>

RECURSIVE SumLen(_)
SumLen(lens) == IF lens = <<>> THEN 0 ELSE Head(lens) + SumLen(Tail(lens))

LineLen(line) == IF line.lv = 0 THEN SEARCH_KEY_LEN ELSE line.lv + 6

MdChunkLen(e) ==
    SumLen([n \in 1..Len(e.lines) |-> LineLen(e.lines[n])]) + Len(e.lines) - 1
    + (IF e.chain = <<>> THEN 0
       ELSE PREFIX_EXTRA + 5 * Len(e.chain) + 3 * (Len(e.chain) - 1))

RECURSIVE StartOf(_, _)
StartOf(raw_chunks, k) ==
    IF k = 1 THEN 0 ELSE StartOf(raw_chunks, k - 1) + Len(raw_chunks[k - 1])

(* chunk_text(content, file_path) of a ".md" file; each chunk keeps the    *)
(* place it came from (start: lines before it) for the properties          *)
chunk_text_md(content, cuts) ==
    LET raw_chunks == split_text(content, cuts)
        enriched == [k \in 1..Len(raw_chunks) |->
            [start |-> StartOf(raw_chunks, k), lines |-> raw_chunks[k],
             chain |-> ChainPrefix(content, raw_chunks[k])]]
    IN  SelectSeq(enriched, LAMBDA e : MdChunkLen(e) >= MIN_CHUNK_LEN)

InitChunk ==
    /\ disk = [p \in Paths |-> 0]
    /\ IngestInit
    /\ hyb = HybOff
    /\ prune = NoPrune
    /\ rr = RrOff
    /\ cli = Off
    /\ cfg = Off
    /\ procs = Off
    /\ vs = Off
    /\ \/ \E content \in SeqsUpTo(HeadingLines, MaxLines) :
            md = [st |-> "ready", content |-> content, cuts |-> {},
                  position |-> 0, chain |-> <<>>, chunks |-> <<>>]
       \/ \E content \in SeqsUpTo(MdLines, MaxLines) :
            \E cuts \in SUBSET (1..(Len(content) - 1)) :
                md = [st |-> "ready", content |-> content, cuts |-> cuts,
                      position |-> 0, chain |-> <<>>, chunks |-> <<>>]

(* one call of _get_heading_chain(content, position) *)
GetHeadingChain ==
    /\ md.st = "ready"
    /\ md.cuts = {}
    /\ \E position \in 0..Len(md.content) :
        md' = [md EXCEPT !.st = "chain", !.position = position,
                         !.chain = get_heading_chain(md.content, position)]
    /\ UNCHANGED <<diskVars, persVars, clock, runVars, obsVars, queryVars,
                   cli, cfg, procs, vs>>

(* one call of chunk_text on a markdown file *)
ChunkText ==
    /\ md.st = "ready"
    /\ md' = [md EXCEPT !.st = "chunked",
                        !.chunks = chunk_text_md(md.content, md.cuts)]
    /\ UNCHANGED <<diskVars, persVars, clock, runVars, obsVars, queryVars,
                   cli, cfg, procs, vs>>

NextChunk ==
    \/ GetHeadingChain
    \/ ChunkText

SpecChunk == InitChunk /\ [][NextChunk]_vars

----------------------------------------------------------------------------
(* One invocation of query.py: main() calls get_collection(db_path) and    *)
(* then the command.  The database is "none" (no directory), "dir" (a      *)
(* directory without the "brain" collection) or "coll".                    *)

CliPaths == {"a.md", "b.md", "c.md"}
CliFormats == {"text", "json"}
CliCommands == {"file", "list"}

CliChunk(fp, j) == [id |-> <<fp, j>>, file_path |-> fp, chunk_index |-> j]

(* the collections ingestion leaves: chunks 0..n-1 of a.md, b.md with or   *)
(* without its one chunk                                                   *)
CliCollections ==
    {{CliChunk("a.md", j) : j \in 0..(n - 1)} \cup
     {CliChunk("b.md", j) : j \in 0..(m - 1)} : n \in 0..MaxFileChunks, m \in 0..1}

(* Mutant: the client is opened before the directory is looked for *)
get_collection_opens_first(db_path) ==
    IF db_path = "coll"
    THEN [collection |-> TRUE, db |-> "coll", stderr |-> <<>>, exit |-> 0]
    ELSE [collection |-> FALSE, db |-> "dir",
          stderr |-> <<"Error: 'brain' collection not found. Run ingest.py first.">>,
          exit |-> 1]

(* get_collection: the collection, or the messages and sys.exit(1) *)
get_collection(db_path) ==
    IF db_path = "none"
    THEN [collection |-> FALSE, db |-> "none",
          stderr |-> <<"Error: Database not found at db_path",
                       "Run ingest.py first to build the index.">>,
          exit |-> 1]
    ELSE IF db_path = "dir"
    THEN [collection |-> FALSE, db |-> "dir",
          stderr |-> <<"Error: 'brain' collection not found. Run ingest.py first.">>,
          exit |-> 1]
    ELSE [collection |-> TRUE, db |-> "coll", stderr |-> <<>>, exit |-> 0]

(* the records collection.get(where={"file_path": file_path}) selects; the *)
(* library does not say in which order it lists them                       *)
CollectionGet(collection, file_path) == {r \in collection : r.file_path = file_path}

(* list.sort(key=chunk_index): stable, smallest first *)
RECURSIVE SortByChunkIndex(_)
SortByChunkIndex(seq) ==
    IF seq = <<>> THEN <<>>
    ELSE LET n == CHOOSE a \in 1..Len(seq) :
                    /\ \A b \in 1..Len(seq) : seq[a].chunk_index <= seq[b].chunk_index
                    /\ \A b \in 1..(a - 1) : seq[b].chunk_index # seq[a].chunk_index
         IN  <<seq[n]>> \o SortByChunkIndex(SubSeq(seq, 1, n - 1) \o
                                            SubSeq(seq, n + 1, Len(seq)))

(* cmd_file: the chunks in the order they are printed; results is what     *)
(* collection.get returned                                                 *)
cmd_file(results, output_format) ==
    IF output_format = "json" THEN results ELSE SortByChunkIndex(results)

CliOff ==
    [st |-> "off", db |-> "none", collection |-> {}, command |-> "list",
     file_path |-> "a.md", format |-> "text", results |-> <<>>, out |-> <<>>,
     stderr |-> <<>>, exit |-> 0, ran |-> "", db0 |-> "none"]

InitCli ==
    /\ disk = [p \in Paths |-> 0]
    /\ IngestInit
    /\ hyb = HybOff
    /\ prune = NoPrune
    /\ rr = RrOff
    /\ md = Off
    /\ cfg = Off
    /\ procs = Off
    /\ vs = Off
    /\ \E d \in {"none", "dir", "coll"}, cmd \in CliCommands, fp \in CliPaths,
          fmt \in CliFormats :
        \E coll \in IF d = "coll" THEN CliCollections ELSE {{}} :
            /\ cmd = "list" => fp = "a.md"
            /\ cli = [CliOff EXCEPT !.st = "ready", !.db = d, !.db0 = d,
                                    !.collection = coll, !.command = cmd,
                                    !.file_path = fp, !.format = fmt]

(* main(): get_collection exits *)
MainNoIndex ==
    /\ cli.st = "ready"
    /\ ~get_collection(cli.db).collection
    /\ cli' = [cli EXCEPT !.st = "exited", !.db = get_collection(cli.db).db,
                          !.stderr = get_collection(cli.db).stderr,
                          !.exit = get_collection(cli.db).exit]
    /\ UNCHANGED <<diskVars, persVars, clock, runVars, obsVars, queryVars,
                   md, cfg, procs, vs>>

(* main(): the "file" command *)
MainFile ==
    /\ cli.st = "ready"
    /\ get_collection(cli.db).collection
    /\ cli.command = "file"
    /\ \E results \in Perms(CollectionGet(cli.collection, cli.file_path)) :
        cli' = [cli EXCEPT !.st = "done", !.ran = "file", !.results = results,
                           !.out = cmd_file(results, cli.format)]
    /\ UNCHANGED <<diskVars, persVars, clock, runVars, obsVars, queryVars,
                   md, cfg, procs, vs>>

(* main(): another command, here "list", whose output is not modelled *)
MainOther ==
    /\ cli.st = "ready"
    /\ get_collection(cli.db).collection
    /\ cli.command # "file"
    /\ cli' = [cli EXCEPT !.st = "done", !.ran = cli.command]
    /\ UNCHANGED <<diskVars, persVars, clock, runVars, obsVars, queryVars,
                   md, cfg, procs, vs>>

NextCli ==
    \/ MainNoIndex
    \/ MainFile
    \/ MainOther

SpecCli == InitCli /\ [][NextCli]_vars

----------------------------------------------------------------------------
(* The chunk parameters: what ingest() and chunk_text() hand to the text   *)
(* splitter for a file of a given format.  None is an argument not given.  *)

None == -1

Exts == {"md", "pdf", "docx", "xlsx"}

FORMAT_CHUNK_DEFAULTS(ext) ==
    CASE ext = "md" -> [chunk_size |-> 1500, chunk_overlap |-> 200]
      [] ext = "pdf" -> [chunk_size |-> 1000, chunk_overlap |-> 200]
      [] ext = "docx" -> [chunk_size |-> 1500, chunk_overlap |-> 200]
      [] ext = "xlsx" -> [chunk_size |-> 2000, chunk_overlap |-> 200]
      [] OTHER -> [chunk_size |-> DEFAULT_CHUNK_SIZE,
                   chunk_overlap |-> DEFAULT_CHUNK_OVERLAP]

(* chunk_text lines 199-204: an argument that is None takes the default of *)
(* the format                                                              *)
ChunkParams(ext, chunk_size, chunk_overlap) ==
    [chunk_size |-> IF chunk_size # None THEN chunk_size
                    ELSE FORMAT_CHUNK_DEFAULTS(ext).chunk_size,
     chunk_overlap |-> IF chunk_overlap # None THEN chunk_overlap
                       ELSE FORMAT_CHUNK_DEFAULTS(ext).chunk_overlap]

(* ingest(..., chunk_size=DEFAULT_CHUNK_SIZE, chunk_overlap=               *)
(* DEFAULT_CHUNK_OVERLAP) and the same defaults of --chunk-size and        *)
(* --chunk-overlap in main()                                               *)
IngestParams(chunk_size, chunk_overlap) ==
    [chunk_size |-> IF chunk_size # None THEN chunk_size ELSE DEFAULT_CHUNK_SIZE,
     chunk_overlap |-> IF chunk_overlap # None THEN chunk_overlap
                       ELSE DEFAULT_CHUNK_OVERLAP]

(* MarkdownTextSplitter(...) / RecursiveCharacterTextSplitter(...): the    *)
(* constructor raises ValueError for an overlap larger than the chunk size *)
SplitterRaises(chunk_size, chunk_overlap) == chunk_overlap > chunk_size

GivenSizes == {None, 100, 200, 3000}
GivenOverlaps == {None, 0, 100, 200, 300}

CfgOff ==
    [st |-> "off", entry |-> "ingest", ext |-> "md", given_size |-> None,
     given_overlap |-> None, chunk_size |-> 0, chunk_overlap |-> 0,
     outcome |-> ""]

InitCfg ==
    /\ disk = [p \in Paths |-> 0]
    /\ IngestInit
    /\ hyb = HybOff
    /\ prune = NoPrune
    /\ rr = RrOff
    /\ md = Off
    /\ cli = Off
    /\ procs = Off
    /\ vs = Off
    /\ \E entry \in {"ingest", "chunk_text"}, ext \in Exts, gs \in GivenSizes,
          go \in GivenOverlaps :
        cfg = [CfgOff EXCEPT !.st = "ready", !.entry = entry, !.ext = ext,
                             !.given_size = gs, !.given_overlap = go]

(* an ingestion run reaches chunk_text for a file of the format *)
IngestChunksFile ==
    /\ cfg.st = "ready"
    /\ cfg.entry = "ingest"
    /\ LET a == IngestParams(cfg.given_size, cfg.given_overlap)
           u == ChunkParams(cfg.ext, a.chunk_size, a.chunk_overlap)
       IN  cfg' = [cfg EXCEPT !.st = "done", !.chunk_size = u.chunk_size,
                              !.chunk_overlap = u.chunk_overlap,
                              !.outcome = IF SplitterRaises(u.chunk_size, u.chunk_overlap)
                                          THEN "raised" ELSE "split"]
    /\ UNCHANGED <<diskVars, persVars, clock, runVars, obsVars, queryVars,
                   md, cli, procs, vs>>

(* chunk_text called by itself, as the tests call it *)
ChunkTextCalled ==
    /\ cfg.st = "ready"
    /\ cfg.entry = "chunk_text"
    /\ LET u == ChunkParams(cfg.ext, cfg.given_size, cfg.given_overlap)
       IN  cfg' = [cfg EXCEPT !.st = "done", !.chunk_size = u.chunk_size,
                              !.chunk_overlap = u.chunk_overlap,
                              !.outcome = IF SplitterRaises(u.chunk_size, u.chunk_overlap)
                                          THEN "raised" ELSE "split"]
    /\ UNCHANGED <<diskVars, persVars, clock, runVars, obsVars, queryVars,
                   md, cli, procs, vs>>

NextCfg ==
    \/ IngestChunksFile
    \/ ChunkTextCalled

SpecCfg == InitCfg /\ [][NextCfg]_vars

----------------------------------------------------------------------------
(* Two ingest processes, neither forced nor dry, on the same repo_root and *)
(* db_path.  Each has its own hash_cache, files_to_process, i and chunks;  *)
(* disk, store and the cache file are shared.  The collection takes one    *)
(* request at a time; nothing else orders the two processes.               *)

Runs == {1, 2}

RunIdle ==
    [pc |-> "idle", hash_cache |-> EmptyMap, files_to_process |-> <<>>, i |-> 1,
     chunks |-> <<>>, content |-> 0, recorded |-> EmptyMap]

(* Mutant: the entries already in the file are kept as they are *)
save_hash_cache_merging(file, cache) ==
    [st |-> "ok",
     map |-> [p \in DOMAIN load_hash_cache(file) \cup DOMAIN cache |->
                 IF p \in DOMAIN load_hash_cache(file)
                 THEN load_hash_cache(file)[p] ELSE cache[p]]]

(* save_hash_cache: the file becomes json.dumps(cache) *)
save_hash_cache(file, cache) == [st |-> "ok", map |-> cache]

InitTwoRuns ==
    /\ disk \in [Paths -> {0} \cup Contents]
    /\ IngestInit
    /\ hyb = HybOff
    /\ prune = NoPrune
    /\ rr = RrOff
    /\ md = Off
    /\ cli = Off
    /\ cfg = Off
    /\ vs = Off
    /\ procs = [st |-> "on", run |-> [k \in Runs |-> RunIdle], last |-> 0]

(* a file is written, created or removed while the runs go on *)
EditTwo(p, c) ==
    /\ edits < MaxEdits
    /\ disk[p] # c
    /\ disk' = [disk EXCEPT ![p] = c]
    /\ edits' = edits + 1
    /\ UNCHANGED <<persVars, clock, runVars, obsVars, queryVars, md, cli, cfg,
                   procs, vs>>

(* lines 270-330: discovery, cache load, DIFF, early returns, database *)
RunStart(k) ==
    /\ procs.run[k].pc = "idle"
    /\ LET cache == InitialCache(FALSE, cacheFile)
           todo == ToProcess(FALSE, cache, disk)
       IN  /\ procs' = [procs EXCEPT !.run[k] =
                  [RunIdle EXCEPT !.pc = IF todo = <<>> THEN "done" ELSE "extract",
                                  !.hash_cache = cache,
                                  !.files_to_process = todo]]
           /\ db' = IF CreatesDb(FALSE, todo) THEN "coll" ELSE db
    /\ UNCHANGED <<diskVars, store, cacheFile, bm25File, clock, runVars, obsVars,
                   queryVars, md, cli, cfg, vs>>

(* lines 337-367: extraction fails or no chunk is left, the loop goes on *)
RunSkip(k) ==
    LET r == procs.run[k]
        f == r.files_to_process[r.i][1]
    IN  /\ r.pc = "extract"
        /\ r.i <= Len(r.files_to_process)
        /\ disk[f] = 0 \/ ~extract_ok(disk[f]) \/ EnrichedChunks(f, disk[f]) = <<>>
        /\ procs' = [procs EXCEPT !.run[k].i = r.i + 1]
        /\ UNCHANGED <<diskVars, persVars, clock, runVars, obsVars, queryVars,
                       md, cli, cfg, vs>>

(* lines 337-377: the file is read and chunked, its old chunks deleted *)
RunExtractDelete(k) ==
    LET r == procs.run[k]
        f == r.files_to_process[r.i][1]
    IN  /\ r.pc = "extract"
        /\ r.i <= Len(r.files_to_process)
        /\ disk[f] # 0
        /\ extract_ok(disk[f])
        /\ EnrichedChunks(f, disk[f]) # <<>>
        /\ store' = DeleteWhere(store, f)
        /\ procs' = [procs EXCEPT !.run[k].pc = "add",
                                  !.run[k].content = disk[f],
                                  !.run[k].chunks = EnrichedChunks(f, disk[f])]
        /\ UNCHANGED <<diskVars, db, cacheFile, bm25File, clock, runVars, obsVars,
                       queryVars, md, cli, cfg, vs>>

(* lines 379-405: the chunks are added and the file's hash recorded *)
RunAdd(k) ==
    LET r == procs.run[k]
        f == r.files_to_process[r.i][1]
        h == r.files_to_process[r.i][2]
    IN  /\ r.pc = "add"
        /\ store' = CollectionAdd(store, NewRecords(f, r.content, r.chunks, k))
        /\ procs' = [procs EXCEPT !.run[k].pc = "extract",
                                  !.run[k].i = r.i + 1,
                                  !.run[k].chunks = <<>>,
                                  !.run[k].content = 0,
                                  !.run[k].hash_cache = HashAfterAdd(r.hash_cache, f, h),
                                  !.run[k].recorded = Put(r.recorded, f, h)]
        /\ UNCHANGED <<diskVars, db, cacheFile, bm25File, clock, runVars, obsVars,
                       queryVars, md, cli, cfg, vs>>

(* line 412: the loop is over, the cache file is rewritten *)
RunSave(k) ==
    LET r == procs.run[k]
    IN  /\ r.pc = "extract"
        /\ r.i > Len(r.files_to_process)
        /\ cacheFile' = save_hash_cache(cacheFile, r.hash_cache)
        /\ procs' = [procs EXCEPT !.run[k].pc = "done", !.last = k]
        /\ UNCHANGED <<diskVars, db, store, bm25File, clock, runVars, obsVars,
                       queryVars, md, cli, cfg, vs>>

NextTwoRuns ==
    \/ \E p \in Paths, c \in {0} \cup Contents : EditTwo(p, c)
    \/ \E k \in Runs : RunStart(k)
    \/ \E k \in Runs : RunSkip(k)
    \/ \E k \in Runs : RunExtractDelete(k)
    \/ \E k \in Runs : RunAdd(k)
    \/ \E k \in Runs : RunSave(k)

SpecTwoRuns == InitTwoRuns /\ [][NextTwoRuns]_vars

----------------------------------------------------------------------------
(* The markdown-only pipeline (src/vector-search/ingest.py) next to the    *)
(* pipeline of repo-search, each as one whole run of ingest() on its own   *)
(* store and cache file, over the same markdown files with the same flags. *)

(* find_markdown_files: f.endswith(".md") *)
find_markdown_files(d) ==
    SelectSeq(CorpusSeq, LAMBDA p : p \in DOMAIN d /\ d[p] # 0 /\ PathExt(p) = "md")

(* chunk_markdown: the splitter's chunks of at least 50 characters *)
chunk_markdown(c) ==
    LET n == Len(Doc(c).raws)
        raw_chunks == [k \in 1..n |-> Text(c, k, Doc(c).raws[k].len, <<>>)]
    IN  SelectSeq(raw_chunks, KeepChunk)

VsRecords(p, cs, now) ==
    {[id |-> ChunkId(p, j - 1),
      document |-> cs[j],
      metadata |-> [file_path |-> p, chunk_index |-> j - 1, chunk_count |-> Len(cs),
                    chunk_length |-> cs[j].len, ingested_at |-> now]] :
        j \in 1..Len(cs)}

(* the loop over files_to_process of vector-search: read_text is not       *)
(* guarded, a file that cannot be decoded ends the run                     *)
RECURSIVE VsLoop(_, _, _, _)
VsLoop(todo, d, a, now) ==
    IF todo = <<>> THEN a
    ELSE LET p == Head(todo)[1]
             h == Head(todo)[2]
         IN  IF ~extract_ok(d[p]) THEN [a EXCEPT !.raised = TRUE]
             ELSE IF chunk_markdown(d[p]) = <<>> THEN VsLoop(Tail(todo), d, a, now)
             ELSE VsLoop(Tail(todo), d,
                         [a EXCEPT !.store = CollectionAdd(DeleteWhere(a.store, p),
                                       VsRecords(p, chunk_markdown(d[p]), now)),
                                   !.cache = Put(a.cache, p, h)],
                         now)

(* the loop over files_to_process of repo-search *)
RECURSIVE RsLoop(_, _, _, _)
RsLoop(todo, d, a, now) ==
    IF todo = <<>> THEN a
    ELSE LET p == Head(todo)[1]
             h == Head(todo)[2]
         IN  IF ~extract_ok(d[p]) \/ EnrichedChunks(p, d[p]) = <<>>
             THEN RsLoop(Tail(todo), d, a, now)
             ELSE RsLoop(Tail(todo), d,
                         [a EXCEPT !.store = CollectionAdd(DeleteWhere(a.store, p),
                                       NewRecords(p, d[p], EnrichedChunks(p, d[p]), now)),
                                   !.cache = HashAfterAdd(a.cache, p, h)],
                         now)

(* one run of a pipeline: pipeline "vs" or "rs", state st = [store,        *)
(* cacheFile]; returns the new state, the files found, the files to        *)
(* process and how the run ended                                           *)
ingest_run(pipeline, d, st, f, dry, now) ==
    LET found == IF pipeline = "vs" THEN find_markdown_files(d) ELSE find_files(d)
        cache == InitialCache(f, st.cacheFile)
        todo == SelectSeq(found, LAMBDA p : ~IsUnchanged(f, cache, d, p))
        work == [n \in 1..Len(todo) |-> <<todo[n], compute_file_hash(d[todo[n]])>>]
        a0 == [store |-> st.store, cache |-> cache, raised |-> FALSE]
        a == IF pipeline = "vs" THEN VsLoop(work, d, a0, now)
             ELSE RsLoop(work, d, a0, now)
        same == [store |-> st.store, cacheFile |-> st.cacheFile, found |-> found,
                 to_process |-> todo, end |-> ""]
    IN  IF found = <<>> THEN [same EXCEPT !.to_process = <<>>, !.end = "nofiles"]
        ELSE IF dry
        THEN [same EXCEPT !.end =
                  IF pipeline = "vs" /\ \E n \in 1..Len(todo) : ~extract_ok(d[todo[n]])
                  THEN "raised" ELSE "dry"]
        ELSE IF todo = <<>> THEN [same EXCEPT !.end = "current"]
        ELSE IF a.raised THEN [same EXCEPT !.store = a.store, !.end = "raised"]
        ELSE [same EXCEPT !.store = a.store,
                          !.cacheFile = save_hash_cache(st.cacheFile, a.cache),
                          !.end = "done"]

NoEnd == [store |-> {}, cacheFile |-> NoFile, found |-> <<>>, to_process |-> <<>>,
          end |-> ""]

InitEquiv ==
    /\ disk \in [MdPaths -> {0} \cup Contents]
    /\ IngestInit
    /\ hyb = HybOff
    /\ prune = NoPrune
    /\ rr = RrOff
    /\ md = Off
    /\ cli = Off
    /\ cfg = Off
    /\ procs = Off
    /\ vs = [st |-> "ready", runs |-> 0, same_before |-> TRUE, vs |-> NoEnd,
             rs |-> NoEnd]

(* a markdown file is written, created or removed between two runs *)
EquivEdit(p, c) ==
    /\ edits < MaxEdits
    /\ disk[p] # c
    /\ disk' = [disk EXCEPT ![p] = c]
    /\ edits' = edits + 1
    /\ vs' = [vs EXCEPT !.st = "ready"]
    /\ UNCHANGED <<persVars, clock, runVars, obsVars, queryVars, md, cli, cfg, procs>>

(* both pipelines run, with the same flags *)
EquivRun(f, dry) ==
    /\ vs.runs < MaxRuns
    /\ vs' = [st |-> "ran", runs |-> vs.runs + 1,
              same_before |-> /\ StoreIds(vs.vs.store) = StoreIds(vs.rs.store)
                              /\ load_hash_cache(vs.vs.cacheFile) =
                                    load_hash_cache(vs.rs.cacheFile),
              vs |-> ingest_run("vs", disk, vs.vs, f, dry, vs.runs + 1),
              rs |-> ingest_run("rs", disk, vs.rs, f, dry, vs.runs + 1)]
    /\ UNCHANGED <<diskVars, persVars, clock, runVars, obsVars, queryVars, md, cli,
                   cfg, procs>>

NextEquiv ==
    \/ \E p \in MdPaths, c \in {0} \cup Contents : EquivEdit(p, c)
    \/ \E f \in BOOLEAN, dry \in BOOLEAN : EquivRun(f, dry)

SpecEquiv == InitEquiv /\ [][NextEquiv]_vars

----------------------------------------------------------------------------
(* Specification of the query functions: one call on bounded inputs *)

InitHybrid ==
    /\ disk = [p \in Paths |-> 0]
    /\ IngestInit
    /\ prune = NoPrune
    /\ rr = RrOff
    /\ AuxOff
    /\ \E S \in SUBSET HChunks, k \in TopKs, a \in HAreas :
        \E near \in Perms(S) :
        \E bm \in {[st |-> "missing", scores |-> <<>>]} \cup
                   {[st |-> "ok", scores |-> sc] : sc \in [1..Len(HIds) -> HScores]} :
            hyb = [HybOff EXCEPT !.st = "ready", !.near = near, !.bm25 = bm,
                                 !.top_k = k, !.area = a]

HybridSearch ==
    /\ hyb.st = "ready"
    /\ LET out == hybrid_search(hyb.near, hyb.bm25, hyb.top_k, hyb.area)
       IN  hyb' = [hyb EXCEPT !.st = "done", !.vec = out.vec, !.kw = out.kw,
                              !.rrf_scores = out.rrf_scores,
                              !.results = out.results]
    /\ UNCHANGED <<diskVars, persVars, clock, runVars, obsVars, prune, rr, auxVars>>

(* collection.query(n_results=0) on an empty collection: the library may   *)
(* reject the request                                                      *)
HybridSearchRaises ==
    /\ hyb.st = "ready"
    /\ hyb.near = <<>>
    /\ hyb' = [hyb EXCEPT !.st = "raised"]
    /\ UNCHANGED <<diskVars, persVars, clock, runVars, obsVars, prune, rr, auxVars>>

(* one call of keyword_search(collection, db_path, query, top_k) *)
KeywordSearch ==
    /\ hyb.st = "ready"
    /\ hyb' = [hyb EXCEPT !.st = "kw_done",
                           !.kwres = keyword_search(hyb.bm25, hyb.top_k)]
    /\ UNCHANGED <<diskVars, persVars, clock, runVars, obsVars, prune, rr, auxVars>>

NextHybrid ==
    \/ HybridSearch
    \/ HybridSearchRaises
    \/ KeywordSearch

SpecHybrid == InitHybrid /\ [][NextHybrid]_vars

(* one call of rerank_results on bounded inputs *)
InitRerank ==
    /\ disk = [p \in Paths |-> 0]
    /\ IngestInit
    /\ hyb = HybOff
    /\ prune = NoPrune
    /\ AuxOff
    /\ \E S \in SUBSET RChunks, q \in Queries, dd \in BOOLEAN :
        \E order \in Perms(S), sc \in [S -> RScores] :
            rr = [RrOff EXCEPT !.st = "ready",
                               !.results = [n \in 1..Len(order) |->
                                               Result(order[n], sc[order[n]])],
                               !.query = q, !.deduplicate = dd]

Rerank ==
    /\ rr.st = "ready"
    /\ LET ret == rerank_results(rr.results, rr.query, rr.deduplicate)
       IN  rr' = [rr EXCEPT !.st = "done", !.out = ret.out, !.after = ret.after]
    /\ UNCHANGED <<diskVars, persVars, clock, runVars, obsVars, hyb, prune, auxVars>>

NextRerank == Rerank

SpecRerank == InitRerank /\ [][NextRerank]_vars

----------------------------------------------------------------------------
(* What the claims speak of *)

(* records without their ingestion time *)
NoTime(recs) == {[r EXCEPT !.metadata = [@ EXCEPT !["ingested_at"] = 0]] : r \in recs}

(* the chunks derived from content c of path p *)
Derived(p, c) == NewRecords(p, c, EnrichedChunks(p, c), 0)

(* the store holds for p exactly the chunks derived from the content of hash h *)
StoreMatches(s, p, h) ==
    /\ \E c \in Contents : compute_file_hash(c) = h
    /\ NoTime(StoreFor(s, p)) = Derived(p, ContentOfHash(h))

(* the entry of p in the run's dict was written by this run *)
WrittenByRun(p) ==
    /\ p \in DOMAIN hash_cache
    /\ \/ force
       \/ Get(load_hash_cache(run0.cache), p) # hash_cache[p]

TodoPaths == {files_to_process[n][1] : n \in 1..Len(files_to_process)}

(* a file that is stored when processed: it extracts and yields chunks *)
Storable(p) == extract_ok(disk[p]) /\ EnrichedChunks(p, disk[p]) # <<>>

(* the run is a non-forced run that directly follows a completed           *)
(* non-forced run, with no change of the sources in between                *)
SecondRun ==
    /\ pc \in Running \cup Completed
    /\ ~force /\ ~dry_run
    /\ run0.since.base = "complete"
    /\ ~run0.since.forced
    /\ run0.since.edited = {}

(* C2 as stated: the second of two non-forced runs in a row processes zero *)
(* files and leaves the store's chunk ids and chunk count as they were.    *)
C2_SecondRunProcessesNothing ==
    SecondRun =>
        /\ files_to_process = <<>>
        /\ StoreIds(store) = StoreIds(run0.store)
        /\ Cardinality(store) = Cardinality(run0.store)

(* C2 amended: the second run classifies as UNCHANGED every file that is   *)
(* stored when processed, processes again only files whose extraction      *)
(* fails or that yield no chunk, and leaves the store as it was.           *)
C2_SecondRunChangesNothing ==
    SecondRun =>
        /\ \A p \in TodoPaths : ~Storable(p)
        /\ files_unchanged + Len(files_to_process) = Len(find_files(disk))
        /\ store = run0.store

C2_Witness ==
    /\ SecondRun
    /\ pc = "done"
    /\ files_unchanged > 0
    /\ store # {}
    /\ Len(files_to_process) > 0

(* ---- C3 ---- *)

(* the run is a non-forced run that follows a completed run *)
ReIngest ==
    /\ pc # "idle"
    /\ ~force /\ ~dry_run
    /\ run0.since.base = "complete"

(* C3: re-ingesting after a completed run updates only the chunks of the   *)
(* files modified since: for every other path the stored records (ids,     *)
(* texts, metadata) are what they were when the run started.               *)
C3_OnlyModifiedFilesUpdated ==
    ReIngest =>
        \A p \in Paths \ run0.since.edited :
            StoreFor(store, p) = StoreFor(run0.store, p)

C3_Witness ==
    /\ ReIngest
    /\ pc = "done"
    /\ \E p \in Paths :
          /\ run0.since.edited = {p}
          /\ StoreFor(store, p) # StoreFor(run0.store, p)
          /\ \E q \in Paths \ {p} : StoreFor(store, q) # {}

(* ---- C4 ---- *)

(* C4 as stated: after a completed run, every file changed before it (and  *)
(* still readable) has in the store exactly the chunks of its new content. *)
C4_ChangedFileFullyReplaced ==
    (pc \in {"done", "ret_current"} /\ ~dry_run) =>
        \A p \in run0.since.edited :
            (disk[p] # 0 /\ extract_ok(disk[p])) =>
                NoTime(StoreFor(store, p)) = Derived(p, disk[p])

(* ---- C5 ---- *)

FailedPaths == {p \in TodoPaths : ~extract_ok(disk[p])}

(* C5: a step at a file whose extraction fails only counts the file as     *)
(* skipped and moves on; when the run is done every file has been visited, *)
(* the failed files have their chunks and cache entries as before, the     *)
(* others are stored, and the cache is persisted.                          *)
C5_FailStep ==
    (/\ pc = "extract"
     /\ i <= Len(files_to_process)
     /\ ~extract_ok(disk[files_to_process[i][1]])
     /\ pc' # "killed") =>
        /\ pc' = "extract"
        /\ i' = i + 1
        /\ skipped' = skipped + 1
        /\ store' = store
        /\ hash_cache' = hash_cache
        /\ cacheFile' = cacheFile

C5_AtEnd ==
    pc = "done" =>
        /\ i = Len(files_to_process) + 1
        /\ skipped = Cardinality(FailedPaths)
        /\ \A p \in FailedPaths :
              /\ StoreFor(store, p) = StoreFor(run0.store, p)
              /\ ~WrittenByRun(p)
        /\ \A p \in TodoPaths :
              Storable(p) => StoreMatches(store, p, compute_file_hash(disk[p]))
        /\ cacheFile = [st |-> "ok", map |-> hash_cache]

C5_ExtractionFailureIsPerFile == [][C5_FailStep]_vars /\ []C5_AtEnd

C5_Witness ==
    /\ pc = "done"
    /\ skipped > 0
    /\ \E p \in FailedPaths : StoreFor(store, p) # {}
    /\ \E n \in 1..Len(files_to_process) :
          /\ ~extract_ok(disk[files_to_process[n][1]])
          /\ \E m \in (n + 1)..Len(files_to_process) :
                Storable(files_to_process[m][1])

(* ---- C6 ---- *)

(* what an uninterrupted run leaves, from store s0 and cache file c0 *)
RunStored(f, c0, d) ==
    IF find_files(d) = <<>> \/ (~f /\ LoadRaises(c0)) THEN {}
    ELSE LET cache == IF f THEN EmptyMap ELSE load_hash_cache(c0)
         IN  {p \in Paths : /\ d[p] # 0
                            /\ ~IsUnchanged(f, cache, d, p)
                            /\ extract_ok(d[p])
                            /\ EnrichedChunks(p, d[p]) # <<>>}

RunProcesses(f, c0, d) ==
    /\ find_files(d) # <<>>
    /\ ~(~f /\ LoadRaises(c0))
    /\ ToProcess(f, IF f THEN EmptyMap ELSE load_hash_cache(c0), d) # <<>>

ExpectedStore(s0, f, c0, d) ==
    {r \in NoTime(s0) : r.metadata.file_path \notin RunStored(f, c0, d)}
        \cup UNION {Derived(p, d[p]) : p \in RunStored(f, c0, d)}

ExpectedCache(f, c0, d) ==
    IF ~RunProcesses(f, c0, d) THEN c0
    ELSE LET cache == IF f THEN EmptyMap ELSE load_hash_cache(c0)
         IN  [st |-> "ok",
              map |-> [q \in DOMAIN cache \cup RunStored(f, c0, d) |->
                          IF q \in RunStored(f, c0, d)
                          THEN compute_file_hash(d[q]) ELSE cache[q]]]

(* the run follows a terminated run with the same flags, sources unchanged *)
AfterKill ==
    /\ run0.since.kill
    /\ run0.since.kforce = force
    /\ ~dry_run

(* C6 as stated: the run that follows a terminated run processes the file  *)
(* that was in flight and ends in the state an uninterrupted run would     *)
(* have produced.                                                          *)
C6_RunAfterKillRecovers ==
    (AfterKill /\ pc \in Completed \cup {"crashed"}) =>
        /\ NoTime(store) =
              ExpectedStore(run0.since.kstore, force, run0.since.kcache, disk)
        /\ cacheFile = ExpectedCache(force, run0.since.kcache, disk)
        /\ run0.since.kpath \in TodoPaths \cup {""}

(* ---- C9 ---- *)

(* C9 as stated: after a completed non-dry run that processed files, the   *)
(* BM25 file exists and holds exactly the ids of the store.                *)
C9_Bm25RebuiltFromStore ==
    pc = "done" =>
        /\ bm25File.st = "ok"
        /\ bm25File.ids = StoreIds(store)

(* ---- C10 ---- *)

(* C10: every stored chunk has a trimmed length of at least 50 *)
C10_StoredChunksAtLeastMinimum ==
    \A r \in store : StripLen(r.document) >= MIN_CHUNK_LEN

C10_Witness ==
    \E r \in store :
        /\ r.document.k # r.metadata.chunk_index + 1
        /\ \E q \in store : /\ q.document.pre # <<>>
                              /\ Doc(q.document.c).raws[q.document.k].len < MIN_CHUNK_LEN

(* ---- C7 ---- *)

(* 1-based position of id in seq, 0 when absent *)
RankIn(seq, id) ==
    IF id \in Range(seq) THEN CHOOSE n \in 1..Len(seq) : seq[n] = id ELSE 0

(* 1/(60+rank) summed over the lists that hold id, in units of 1/RrfScale *)
RrfSum(id) ==
    (IF RankIn(hyb.vec, id) > 0 THEN RrfScale \div (60 + RankIn(hyb.vec, id)) ELSE 0)
    + (IF RankIn(hyb.kw, id) > 0 THEN RrfScale \div (60 + RankIn(hyb.kw, id)) ELSE 0)

Candidates == Range(hyb.vec) \cup Range(hyb.kw)

(* C7: the fused score of a chunk is the sum of 1/(60+rank) over the two   *)
(* lists; the result is the top_k candidates by that score, in descending  *)
(* order, each id once, every score positive; for vector ranks [A,B,C] and *)
(* keyword ranks [B,A,D], A and B tie and C and D score lower.             *)
C7_RrfFusion ==
    hyb.st = "done" =>
        LET res == hyb.results
            resIds == {res[n].id : n \in 1..Len(res)}
        IN  /\ DOMAIN hyb.rrf_scores = Candidates
            /\ \A id \in Candidates : hyb.rrf_scores[id] = RrfSum(id)
            /\ Len(res) = Min(hyb.top_k, Cardinality(Candidates))
            /\ Cardinality(resIds) = Len(res)
            /\ \A n \in 1..Len(res) :
                  /\ res[n].id \in Candidates
                  /\ res[n].score = RrfSum(res[n].id)
                  /\ res[n].score > 0
            /\ \A n \in 1..(Len(res) - 1) : res[n].score >= res[n + 1].score
            /\ \A id \in Candidates \ resIds :
                  \A n \in 1..Len(res) : RrfSum(id) <= res[n].score
            /\ (hyb.vec = <<"A", "B", "C">> /\ hyb.kw = <<"B", "A", "D">>) =>
                  /\ hyb.rrf_scores["A"] = hyb.rrf_scores["B"]
                  /\ hyb.rrf_scores["C"] < hyb.rrf_scores["A"]
                  /\ hyb.rrf_scores["D"] < hyb.rrf_scores["A"]
                  /\ Len(res) >= 2 => {res[1].id, res[2].id} = {"A", "B"}

C7_Witness ==
    /\ hyb.st = "done"
    /\ hyb.vec = <<"A", "B", "C">>
    /\ hyb.kw = <<"B", "A", "D">>
    /\ Len(hyb.results) = 2

(* ---- C8 ---- *)

StoredFromCurrentContent(p) ==
    /\ disk[p] # 0
    /\ StoreFor(run0.store, p) # {}
    /\ \A r \in StoreFor(run0.store, p) : r.document.c = disk[p]

(* C11: a completed run, forced or not, leaves a file whose content is     *)
(* the one already stored with the same set of chunk ids, path::chunk_0 to *)
(* path::chunk_{n-1}.                                                      *)
C11_ChunkIdsStable ==
    (pc \in Completed /\ ~dry_run) =>
        \A p \in Paths :
            StoredFromCurrentContent(p) =>
                /\ StoreIds(StoreFor(store, p)) = StoreIds(StoreFor(run0.store, p))
                /\ StoreIds(StoreFor(store, p)) =
                      {<<p, j>> : j \in 0..(Len(EnrichedChunks(p, disk[p])) - 1)}

C11_Witness ==
    /\ pc = "done"
    /\ force
    /\ \E p \in Paths :
          /\ StoredFromCurrentContent(p)
          /\ Cardinality(StoreFor(store, p)) >= 2
          /\ StoreFor(store, p) # StoreFor(run0.store, p)

(* ---- C12 ---- *)

Classify(p) ==
    LET cached == load_hash_cache(run0.cache)
    IN  IF p \notin DOMAIN cached THEN "NEW"
        ELSE IF cached[p] = compute_file_hash(disk[p]) THEN "UNCHANGED"
        ELSE "CHANGED"

Found == Range(find_files(disk))

(* chunks counted over the files of S that extract *)
RECURSIVE ChunkTotal(_)
ChunkTotal(S) ==
    IF S = {} THEN 0
    ELSE LET p == CHOOSE x \in S : TRUE
         IN  (IF extract_ok(disk[p]) THEN Len(chunk_text(p, disk[p])) ELSE 0)
             + ChunkTotal(S \ {p})

(* C13: past the DIFF of a non-forced run the files to process are exactly *)
(* the NEW and CHANGED files, each once, the others are counted unchanged, *)
(* the two numbers add up to the files discovered, only NEW and CHANGED    *)
(* files are ever in flight, and a run that ends has extracted and chunked *)
(* all of them.                                                            *)
C13_ClassifiedByCachedHash ==
    (~force /\ pc \in Running \cup {"done", "ret_current", "ret_dry"}) =>
        LET unchanged == {p \in Found : Classify(p) = "UNCHANGED"}
        IN  /\ TodoPaths = {p \in Found : Classify(p) \in {"NEW", "CHANGED"}}
            /\ Len(files_to_process) = Cardinality(TodoPaths)
            /\ files_unchanged = Cardinality(unchanged)
            /\ Len(files_to_process) + files_unchanged = Len(find_files(disk))
            /\ pc \in {"delete", "add", "cache"} => Classify(CurPath) # "UNCHANGED"
            /\ pc = "done" => i = Len(files_to_process) + 1
            /\ pc \in {"done", "ret_dry"} => total_chunks = ChunkTotal(TodoPaths)

C13_Witness ==
    /\ ~force
    /\ pc = "done"
    /\ total_chunks > 0
    /\ \E p \in Found, q \in Found :
          /\ Classify(p) = "CHANGED"
          /\ Classify(q) = "UNCHANGED"

(* ---- C14 ---- *)

(* C14: a forced run does not read the persisted cache: it processes every *)
(* discovered file, counts none as unchanged, and the cache it persists    *)
(* holds the files it stored and nothing of the cache it found.            *)
C14_ForceTreatsCacheAsEmpty ==
    force =>
        /\ pc # "crashed"
        /\ pc \in Running \cup {"done", "ret_dry"} =>
              /\ TodoPaths = Found
              /\ Len(files_to_process) = Len(find_files(disk))
              /\ files_unchanged = 0
        /\ pc = "done" =>
              /\ i = Len(files_to_process) + 1
              /\ cacheFile.st = "ok"
              /\ DOMAIN cacheFile.map = {p \in Found : Storable(p)}

C14_Witness ==
    /\ force
    /\ pc = "done"
    /\ run0.cache.st = "ok"
    /\ \E p \in Found : Get(run0.cache.map, p) = compute_file_hash(disk[p])
    /\ \E q \in DOMAIN run0.cache.map : q \notin DOMAIN cacheFile.map

(* ---- C15 ---- *)

(* C15: a step of a dry run changes neither the database directory, nor    *)
(* the store, nor the cache file, nor the BM25 file.                       *)
C15_DryRunWritesNothing ==
    [][dry_run' => (db' = db /\ store' = store /\ cacheFile' = cacheFile
                    /\ bm25File' = bm25File)]_vars

C15_Witness ==
    /\ pc = "ret_dry"
    /\ files_to_process # <<>>
    /\ total_chunks > 0
    /\ db = "none"

(* ---- C16 ---- *)

(* C16 as stated: a non-forced run that finds a cache file it cannot parse *)
(* goes on as with an empty cache, every discovered file being NEW.        *)
C16_CacheLoadNeverFails ==
    (/\ ~force
     /\ run0.cache.st = "corrupt"
     /\ pc \in Running \cup {"done", "ret_current", "ret_dry", "crashed"}) =>
        /\ pc # "crashed"
        /\ TodoPaths = Found
        /\ files_unchanged = 0

(* ---- C17 ---- *)

(* the collection's chunks that satisfy the area filter, nearest first *)
Filtered == SelectSeq(hyb.near, LAMBDA id : hyb.area = "" \/ HArea(id) = hyb.area)

(* C17 as stated: with no BM25 file both searches return nothing *)
C17_NoBm25BothEmpty ==
    (hyb.bm25.st = "missing" /\ hyb.st \in {"done", "kw_done"}) =>
        /\ hyb.results = <<>>
        /\ hyb.kwres = <<>>

(* C17 amended: with no BM25 file keyword search returns nothing; hybrid   *)
(* search returns the top_k nearest chunks that satisfy the filter, the    *)
(* n-th with score 1/(60+n), and fails only where the vector query itself  *)
(* is rejected, on an empty collection.                                    *)
C17_NoBm25KeywordEmptyHybridVectorOnly ==
    hyb.bm25.st = "missing" =>
        /\ hyb.st = "kw_done" => hyb.kwres = <<>>
        /\ hyb.st = "done" =>
              /\ hyb.kw = <<>>
              /\ Len(hyb.results) = Min(hyb.top_k, Len(Filtered))
              /\ \A n \in 1..Len(hyb.results) :
                    /\ hyb.results[n].id = Filtered[n]
                    /\ hyb.results[n].score * (RRF_K + n) = RrfScale
        /\ hyb.st = "raised" => hyb.near = <<>>

C17_Witness ==
    /\ hyb.bm25.st = "missing"
    /\ hyb.st = "done"
    /\ Len(hyb.results) >= 2
    /\ Len(Filtered) < Len(hyb.near)

(* ---- C18 ---- *)

(* C18: keyword_search returns the min(top_k, number of positive scores)   *)
(* best-scoring indexed chunks, each once with its score, best first; no   *)
(* result has a score of zero or less and no omitted chunk scores higher   *)
(* than a returned one.                                                    *)
C18_KeywordTopKPositive ==
    (hyb.st = "kw_done" /\ hyb.bm25.st = "ok") =>
        LET res == hyb.kwres
            sc == hyb.bm25.scores
            resIds == {res[n].id : n \in 1..Len(res)}
            positive == {idx \in 1..Len(sc) : sc[idx] > 0}
        IN  /\ Len(res) = Min(hyb.top_k, Cardinality(positive))
            /\ Cardinality(resIds) = Len(res)
            /\ \A n \in 1..Len(res) :
                  \E idx \in positive : /\ res[n].id = HIds[idx]
                                        /\ res[n].score = sc[idx]
            /\ \A n \in 1..(Len(res) - 1) : res[n].score >= res[n + 1].score
            /\ \A idx \in 1..Len(sc) :
                  HIds[idx] \notin resIds =>
                      \A n \in 1..Len(res) : sc[idx] <= res[n].score

C18_Witness ==
    /\ hyb.st = "kw_done"
    /\ hyb.bm25.st = "ok"
    /\ Len(hyb.kwres) = hyb.top_k
    /\ Len(hyb.kwres) >= 2
    /\ hyb.kwres[1].score > hyb.kwres[2].score
    /\ \E idx \in 1..Len(hyb.bm25.scores) :
          /\ hyb.bm25.scores[idx] > 0
          /\ \A n \in 1..Len(hyb.kwres) : hyb.kwres[n].id # HIds[idx]
    /\ \E idx \in 1..Len(hyb.bm25.scores) : hyb.bm25.scores[idx] < 0

(* ---- C19 ---- *)

QueryTerms == {Lower(rr.query[n]) : n \in 1..Len(rr.query)}

(* 0.05 for each query term among the title's words, 0.02 if the area is a *)
(* query term, in hundredths                                               *)
ExpectedBoost(r) ==
    LET title == r.metadata.title
    IN  5 * Cardinality({t \in QueryTerms :
                            \E n \in 1..Len(title) : Lower(title[n]) = t})
        + (IF \E t \in QueryTerms : t = Lower(r.metadata.area) THEN 2 ELSE 0)

(* the input result that the output result o was made from *)
InputOf(o) == CHOOSE r \in Range(rr.results) : r.id = o.id

OutIsBoostedInput ==
    \A n \in 1..Len(rr.out) :
        LET o == rr.out[n]
        IN  /\ \E r \in Range(rr.results) : r.id = o.id
            /\ o = [InputOf(o) EXCEPT !.score = @ + ExpectedBoost(InputOf(o))]

OutDescending ==
    \A n \in 1..(Len(rr.out) - 1) : rr.out[n].score >= rr.out[n + 1].score

(* C19: with deduplicate the output holds one result for each file_path of *)
(* the input, the one with the best score among that file's chunks, and is *)
(* in descending order of score.                                           *)
C19_DedupKeepsBestPerFile ==
    (rr.st = "done" /\ rr.deduplicate) =>
        LET files(seq) == {seq[n].metadata.file_path : n \in 1..Len(seq)}
        IN  /\ files(rr.out) = files(rr.results)
            /\ Len(rr.out) = Cardinality(files(rr.out))
            /\ OutIsBoostedInput
            /\ \A n \in 1..Len(rr.out) :
                  \A r \in Range(rr.results) :
                      r.metadata.file_path = rr.out[n].metadata.file_path =>
                          /\ r.score <= InputOf(rr.out[n]).score
                          /\ r.score + ExpectedBoost(r) <= rr.out[n].score
            /\ OutDescending

C19_Witness ==
    /\ rr.st = "done"
    /\ rr.deduplicate
    /\ Len(rr.results) = 3
    /\ Len(rr.out) = 2
    /\ rr.out[1].id = "a1"
    /\ rr.results[1].id = "a0"
    /\ InputOf(rr.out[1]).score < InputOf(rr.out[2]).score

(* ---- C20 ---- *)

(* C20: without deduplicate the output holds every input result once, its  *)
(* score raised by the boost, in descending order of the boosted score;    *)
(* the input list is as it was; an empty input gives an empty output.      *)
C20_BoostAndResort ==
    rr.st = "done" =>
        /\ rr.after = rr.results
        /\ rr.results = <<>> => rr.out = <<>>
        /\ ~rr.deduplicate =>
              /\ Len(rr.out) = Len(rr.results)
              /\ {rr.out[n].id : n \in 1..Len(rr.out)} =
                    {rr.results[n].id : n \in 1..Len(rr.results)}
              /\ OutIsBoostedInput
              /\ OutDescending

C20_Witness ==
    /\ rr.st = "done"
    /\ ~rr.deduplicate
    /\ Len(rr.out) = 3
    /\ rr.out[1].id = rr.results[3].id
    /\ rr.out[1].score = rr.results[3].score + 7
    /\ rr.results[3].score < rr.results[1].score
    /\ \E n \in 1..3 : rr.out[n].score = InputOf(rr.out[n]).score

----------------------------------------------------------------------------
(* C21: every retained chunk of a markdown text that starts under a        *)
(* heading, and does not itself open with a "# " heading, contains the     *)
(* text of the heading in force where it starts, in the chain prepended to *)
(* it or in its own lines.                                                 *)
ContainsHeading(e, tx) ==
    \/ \E n \in 1..Len(e.chain) : e.chain[n] = tx
    \/ \E n \in 1..Len(e.lines) : e.lines[n].lv > 0 /\ e.lines[n].tx = tx

C21_ChunkContainsItsHeading ==
    md.st = "chunked" =>
        \A k \in 1..Len(md.chunks) :
            LET e == md.chunks[k]
                in_force == get_heading_chain(md.content, e.start)
            IN  (in_force # <<>> /\ e.lines[1].lv # 1)
                    => ContainsHeading(e, in_force[Len(in_force)])

(* C28: _get_heading_chain returns, in increasing depth, the last heading  *)
(* of each level 1..3 that has been seen since the last shallower heading, *)
(* and nothing for the other levels.                                       *)
InForce(content, position, l) ==
    LET seen == {n \in 1..position :
                    /\ content[n].lv = l
                    /\ \A m \in (n + 1)..position :
                          content[m].lv = 0 \/ content[m].lv >= l}
    IN  IF seen = {} THEN ""
        ELSE content[CHOOSE n \in seen : \A m \in seen : m <= n].tx

C28_HeadingChainIsHeadingsInForce ==
    md.st = "chain" =>
        md.chain = SelectSeq(<<InForce(md.content, md.position, 1),
                               InForce(md.content, md.position, 2),
                               InForce(md.content, md.position, 3)>>,
                             LAMBDA t : t # "")

(* a "### " heading followed by a "## " heading: the chain has lost the    *)
(* level-3 entry                                                           *)
C28_Witness ==
    /\ md.st = "chain"
    /\ md.position = 4
    /\ md.content[1].lv = 1
    /\ md.content[2].lv = 2
    /\ md.content[3].lv = 3
    /\ md.content[4] = Line(2, "B")
    /\ md.chain = <<md.content[1].tx, "B">>

(* C22: a stored chunk of a document with a non-empty title is the chunk   *)
(* chunk_text returned with "[title]" and a blank line before it, unless   *)
(* the title occurs in the first len(title)+50 characters of that chunk;   *)
(* either way the stored text contains the title.                          *)
ContainsTitle(p, t) ==
    \/ \E n \in 1..Len(t.pre) : t.pre[n] = "title"
    \/ TitleInWindow(p, t.c, [t EXCEPT !.pre = SelectSeq(t.pre, LAMBDA g : g # "title")])

C22_StoredChunkCarriesTitle ==
    \A r \in store :
        LET p == r.metadata.file_path
            t == r.document
            chunk == HeadingEnrich(p, t.c, t.k)
        IN  TitleLen(p, t.c) > 0 =>
                /\ t = IF TitleInWindow(p, t.c, chunk)
                       THEN chunk
                       ELSE Prefixed(chunk, "title", TitleLen(p, t.c))
                /\ ContainsTitle(p, t)

(* a later chunk stored with the title before it, next to a first chunk    *)
(* that has the title in its own first characters                          *)
C22_Witness ==
    \E r, q \in store :
        /\ r.metadata.file_path = q.metadata.file_path
        /\ r.metadata.chunk_index > 0
        /\ Head(r.document.pre) = "title"
        /\ q.metadata.chunk_index = 0
        /\ q.document.pre = <<>>

(* C23: the "file" command prints every chunk stored under the path given, *)
(* each once, in ascending chunk_index order, as text and as json.         *)
C23_FileChunksAllInIndexOrder ==
    (cli.st = "done" /\ cli.ran = "file") =>
        /\ Range(cli.out) = {r \in cli.collection : r.file_path = cli.file_path}
        /\ Len(cli.out) = Cardinality(Range(cli.out))
        /\ \A a, b \in 1..Len(cli.out) :
              a < b => cli.out[a].chunk_index < cli.out[b].chunk_index

(* C24: without the database directory or without the collection, query.py *)
(* ends with exit code 1 and a message on stderr that says to run          *)
(* ingest.py first; it runs no command and leaves a missing directory      *)
(* missing.                                                                *)
SaysRunIngestFirst(stderr) ==
    \E n \in 1..Len(stderr) :
        stderr[n] \in {"Run ingest.py first to build the index.",
                       "Error: 'brain' collection not found. Run ingest.py first."}

C24_NoIndexFailsWithoutCreating ==
    /\ (cli.st = "exited" \/ cli.st = "done") =>
          (cli.db0 # "coll" <=> cli.st = "exited")
    /\ cli.st = "exited" =>
          /\ cli.exit = 1
          /\ SaysRunIngestFirst(cli.stderr)
          /\ cli.ran = ""
          /\ cli.out = <<>>
          /\ cli.db = cli.db0

C24_Witness ==
    /\ cli.st = "exited"
    /\ cli.db0 = "none"
    /\ cli.db = "none"
    /\ cli.command = "file"
    /\ cli.exit = 1

(* C25: whenever text is split, chunk_overlap < chunk_size; parameters     *)
(* with chunk_overlap >= chunk_size are rejected instead.                  *)
C25_SplitsOnlyWithOverlapBelowSize ==
    cfg.st = "done" =>
        /\ cfg.outcome = "split" => cfg.chunk_overlap < cfg.chunk_size
        /\ cfg.chunk_overlap >= cfg.chunk_size => cfg.outcome = "raised"

(* C29: an ingestion run chunks a file with the size and overlap the       *)
(* caller gave and, for what the caller did not give, with the default of  *)
(* the file's format.                                                      *)
C29_RunUsesFormatDefaults ==
    (cfg.st = "done" /\ cfg.entry = "ingest") =>
        /\ cfg.chunk_size = IF cfg.given_size # None THEN cfg.given_size
                            ELSE FORMAT_CHUNK_DEFAULTS(cfg.ext).chunk_size
        /\ cfg.chunk_overlap = IF cfg.given_overlap # None THEN cfg.given_overlap
                               ELSE FORMAT_CHUNK_DEFAULTS(cfg.ext).chunk_overlap

(* C26: when hybrid_search is given an area, every chunk it returns has    *)
(* that area in its metadata.                                              *)
C26_HybridResultsSatisfyFilter ==
    (hyb.st = "done" /\ hyb.area # "") =>
        \A n \in 1..Len(hyb.results) : hyb.results[n].metadata.area = hyb.area

(* C27 as claimed: when two overlapping runs have both finished, the cache *)
(* file has, for every file whose chunks either run stored, the hash of    *)
(* the content whose chunks are in the store.                              *)
BothFinished == procs.st = "on" /\ \A k \in Runs : procs.run[k].pc = "done"

C30_MarkdownPipelinesAgree ==
    (vs.st = "ran" /\ vs.same_before) =>
        /\ vs.vs.found = vs.rs.found
        /\ vs.vs.to_process = vs.rs.to_process
        /\ load_hash_cache(vs.vs.cacheFile) = load_hash_cache(vs.rs.cacheFile)
        /\ StoreIds(vs.vs.store) = StoreIds(vs.rs.store)
====
